---- MODULE Spec2Model ----
(***************************************************************************)
(* net-websockets.js: a net.Socket look-alike (class Socket extends        *)
(* stream.Duplex) on top of a browser WebSocket.                           *)
(*                                                                         *)
(* The state is one Socket object, the WebSocket objects it created, the   *)
(* process.nextTick queue and the timer the object armed.  JavaScript is   *)
(* run-to-completion, so every application call and every WebSocket        *)
(* notification handler is one atomic action.  A handler is written as an  *)
(* operator from a record of the whole state to the record after it, so    *)
(* that the calls a handler makes compose as in the source.                *)
(*                                                                         *)
(* src/index.js holds two definitions of class Socket.  Spec models the    *)
(* first (lines 28-266), SpecLegacy the second (lines 369-593).            *)
(***************************************************************************)
EXTENDS Integers, Sequences, FiniteSets, TLC

\* ------------------------------------------------------------------ bounds
MaxWrites == 1
\* writes the application submits in SpecWrite
MaxQueued == 3
MaxMessages == 1
MaxTimeouts == 1
MaxSockets == 2
MaxCallbacks == 1
MaxEnds == 1

\* bytesWritten after `+= undefined` (data.length of an ArrayBuffer)
NaN == -1

\* payloads the application writes: a string of 3 UTF-8 bytes, a Buffer of 2
Payloads == {[kind |-> "string", bytes |-> 3], [kind |-> "buffer", bytes |-> 2]}
\* no payload: end() without data, a connect callback that does not write
NoData == [kind |-> "none", bytes |-> 0]
\* byte lengths of the inbound messages
MessageBytes == {1, 2}
\* idle durations given to setTimeout (positive and finite)
Durations == {1, 2}
\* close codes and clean flags a close notification carries
CloseCodes == {1000, 1001, 1006, 2999, 3000}
CleanFlags == {"true", "false", "undefined"}

VARIABLES
    connecting, readable, writable,   \* Socket flags
    destroyed,                        \* stream.Duplex's destroyed accessor
    allowHalfOpen,
    _timer, _timeout,                 \* 0 stands for null
    _ws,                              \* 0 stands for null, else index in sockets
    bytesRead, bytesWritten,
    timerLive, timerDur, strays,      \* the timers module: the timer _timer names, and leaked ones
    sockets,                          \* the WebSocket objects created so far
    listeners,                        \* 'connect' listeners, in registration order
    ticks,                            \* process.nextTick queue
    wstate,                           \* stream.Writable state: writing, buffer, ended
    rstate,                           \* stream.Readable state: pushed chunks, EOF, end emitted
    writes,                           \* payloads the application submitted, in order
    sends,                            \* calls of WebSocket.send, in order
    completed,                        \* write ids whose completion callback ran, in order
    errors,                           \* 'error' events emitted, in order
    counts,                           \* how often: connect event, connect callback, timeout event, ...
    loads,                            \* FileReader reads in progress (second definition)
    observed                          \* what the last readyState read returned

vars == <<connecting, readable, writable, destroyed, allowHalfOpen, _timer, _timeout,
          _ws, bytesRead, bytesWritten, timerLive, timerDur, strays, sockets,
          listeners, ticks, wstate, rstate, writes, sends, completed, errors,
          counts, loads, observed>>

\* The whole state as one record, and the assignment of a record to the state.
Cur ==
    [connecting |-> connecting, readable |-> readable, writable |-> writable,
     destroyed |-> destroyed, allowHalfOpen |-> allowHalfOpen,
     _timer |-> _timer, _timeout |-> _timeout, _ws |-> _ws,
     bytesRead |-> bytesRead, bytesWritten |-> bytesWritten,
     timerLive |-> timerLive, timerDur |-> timerDur, strays |-> strays,
     sockets |-> sockets, listeners |-> listeners, ticks |-> ticks,
     wstate |-> wstate, rstate |-> rstate, writes |-> writes, sends |-> sends,
     completed |-> completed, errors |-> errors, counts |-> counts,
     loads |-> loads, observed |-> observed]

Commit(r) ==
    /\ connecting' = r.connecting /\ readable' = r.readable /\ writable' = r.writable
    /\ destroyed' = r.destroyed /\ allowHalfOpen' = r.allowHalfOpen
    /\ _timer' = r._timer /\ _timeout' = r._timeout /\ _ws' = r._ws
    /\ bytesRead' = r.bytesRead /\ bytesWritten' = r.bytesWritten
    /\ timerLive' = r.timerLive /\ timerDur' = r.timerDur /\ strays' = r.strays
    /\ sockets' = r.sockets /\ listeners' = r.listeners /\ ticks' = r.ticks
    /\ wstate' = r.wstate /\ rstate' = r.rstate /\ writes' = r.writes
    /\ sends' = r.sends /\ completed' = r.completed /\ errors' = r.errors
    /\ counts' = r.counts /\ loads' = r.loads /\ observed' = r.observed

\* new Socket(options): lines 30-56
Constructed(half) ==
    [connecting |-> FALSE, readable |-> FALSE, writable |-> FALSE,
     destroyed |-> FALSE, allowHalfOpen |-> half,
     _timer |-> 0, _timeout |-> 0, _ws |-> 0,
     bytesRead |-> 0, bytesWritten |-> 0,
     timerLive |-> FALSE, timerDur |-> 0, strays |-> 0,
     sockets |-> <<>>, listeners |-> <<>>, ticks |-> <<>>,
     wstate |-> [writing |-> FALSE, buffer |-> <<>>, ended |-> FALSE],
     rstate |-> [pushed |-> <<>>, eof |-> FALSE, endEmitted |-> FALSE],
     writes |-> <<>>, sends |-> <<>>, completed |-> <<>>, errors |-> <<>>,
     counts |-> [connect |-> 0, connectCb |-> 0, timeout |-> 0,
                 destroyCb |-> 0, thrown |-> 0, writeAfterEnd |-> 0],
     loads |-> <<>>, observed |-> "none"]

\* ------------------------------------------------------------------ timers

\* timers.clearTimeout(this._timer): the timer the handle names no longer fires
ClearTimer(r) == [r EXCEPT !.timerLive = FALSE, !.timerDur = 0]

\* timers.setTimeout(() => this.emit('timeout'), msecs), its handle stored in _timer;
\* a timer still pending whose handle is overwritten keeps running (a stray)
ArmTimer(r, msecs) ==
    [r EXCEPT !._timer = 1, !.timerLive = TRUE, !.timerDur = msecs,
              !.strays = IF r.timerLive THEN r.strays + 1 ELSE r.strays]

\* _refreshTimer that arms a timer without clearing the pending one
RefreshWithoutClear(r) ==
    IF r._timeout # 0 THEN ArmTimer(r, r._timeout) ELSE r

\* Socket._refreshTimer
RefreshTimer(r) ==
    LET c == IF r._timer # 0 THEN ClearTimer(r) ELSE r
    IN  IF c._timeout # 0 THEN ArmTimer(c, c._timeout) ELSE c

\* setTimeout whose 0 forgets the duration and leaves the pending timer alone
SetTimeoutKeepsTimer(r, msecs) ==
    IF msecs > 0
    THEN RefreshTimer([r EXCEPT !._timeout = msecs])
    ELSE IF msecs = 0 THEN [r EXCEPT !._timeout = 0]
    ELSE r

\* Socket.setTimeout(msecs, callback); msecs is 0, or positive and finite, or
\* anything else (negative, NaN, Infinity: written -1 here), which changes nothing
SetTimeoutCall(r, msecs) ==
    IF msecs > 0
    THEN RefreshTimer([r EXCEPT !._timeout = msecs])
    ELSE IF msecs = 0
         THEN LET c == [r EXCEPT !._timeout = 0]
              IN  IF c._timer # 0 THEN [ClearTimer(c) EXCEPT !._timer = 0] ELSE c
         ELSE r

\* ------------------------------------------------------------------ readyState

\* a getter that looks at readable and writable before connecting
ReadyStateFlagsFirst(c, rd, wr) ==
    IF rd /\ wr THEN "open"
    ELSE IF c THEN "opening"
    ELSE IF rd /\ ~wr THEN "readOnly"
    ELSE IF ~rd /\ wr THEN "writeOnly"
    ELSE "closed"

\* the readyState getter
ReadyState(c, rd, wr) ==
    IF c THEN "opening"
    ELSE IF rd /\ wr THEN "open"
    ELSE IF rd /\ ~wr THEN "readOnly"
    ELSE IF ~rd /\ wr THEN "writeOnly"
    ELSE "closed"

readyState == ReadyState(connecting, readable, writable)

\* reading socket.readyState, the value read kept in `observed`
GetReadyStateCall(r) ==
    [r EXCEPT !.observed = ReadyState(r.connecting, r.readable, r.writable)]

\* ------------------------------------------------------------------ stream.Duplex (base class)

\* `data` as _write hands it to send: a string goes through
\* this._encoder.encode(data).buffer, an ArrayBuffer; a Buffer is passed as it is
Encode(p) ==
    IF p.kind = "string"
    THEN [type |-> "ArrayBuffer", byteLength |-> p.bytes]
    ELSE [type |-> "Buffer", byteLength |-> p.bytes]

\* data.length: a Buffer has it, an ArrayBuffer has byteLength only (undefined)
DataLength(d) == IF d.type = "Buffer" THEN d.byteLength ELSE NaN

\* JavaScript's + on a number and a number or undefined
JSAdd(a, b) == IF a = NaN \/ b = NaN THEN NaN ELSE a + b

\* Socket._destroy(err, cb)
_destroy(r) ==
    IF r.destroyed
    THEN r
    ELSE LET f == [r EXCEPT !.destroyed = TRUE, !.connecting = FALSE,
                            !.readable = FALSE, !.writable = FALSE]
             w == IF f._ws # 0
                  THEN [f EXCEPT !.sockets[f._ws].closeCalls = @ + 1,
                                 !.sockets[f._ws].state =
                                     IF @ = "CLOSED" THEN "CLOSED" ELSE "CLOSING",
                                 !._ws = 0]
                  ELSE f
             t == IF w._timer # 0 THEN RefreshTimer([w EXCEPT !._timeout = 0]) ELSE w
         IN  [t EXCEPT !.counts.destroyCb = @ + 1]

\* destroy() that runs the body of _destroy on every call
DestroyUnguarded(r) == _destroy([r EXCEPT !.destroyed = FALSE])

\* stream.Duplex.destroy(), which Socket inherits: a stream already destroyed is
\* left alone; otherwise both stream states are marked destroyed (the `destroyed`
\* accessor reads them) and then _destroy(err, cb) is called
Duplex_destroy(r) ==
    IF r.destroyed THEN r ELSE _destroy([r EXCEPT !.destroyed = TRUE])

\* _write that hands the data to send even while connecting
WriteWithoutDeferral(r, w) ==
    LET t == RefreshTimer(r)
    IN  IF t._ws = 0
        THEN [t EXCEPT !.counts.thrown = @ + 1]
        ELSE IF t.sockets[t._ws].state = "CONNECTING"
        THEN [t EXCEPT !.sends = Append(@, [w |-> w, ws |-> t._ws, state |-> "CONNECTING"]),
                       !.counts.thrown = @ + 1]
        ELSE [t EXCEPT !.sends = Append(@, [w |-> w, ws |-> t._ws,
                                            state |-> t.sockets[t._ws].state]),
                       !.ticks = Append(@, [kind |-> "written", w |-> w,
                                            inc |-> DataLength(Encode(t.writes[w]))])]

\* Socket._write(data, encoding, cb) for the write with id w
_write(r, w) ==
    LET t == RefreshTimer(r)
    IN  IF t.connecting
        THEN [t EXCEPT !.listeners = Append(@, [kind |-> "replay", w |-> w])]
        ELSE IF t._ws = 0
        THEN \* this._ws.send on null: TypeError, no completion is scheduled
             [t EXCEPT !.counts.thrown = @ + 1]
        ELSE IF t.sockets[t._ws].state = "CONNECTING"
        THEN \* WebSocket.send throws InvalidStateError while CONNECTING
             [t EXCEPT !.sends = Append(@, [w |-> w, ws |-> t._ws, state |-> "CONNECTING"]),
                       !.counts.thrown = @ + 1]
        ELSE [t EXCEPT !.sends = Append(@, [w |-> w, ws |-> t._ws,
                                            state |-> t.sockets[t._ws].state]),
                       !.ticks = Append(@, [kind |-> "written", w |-> w,
                                            inc |-> DataLength(Encode(t.writes[w]))])]

\* stream.Writable.write for the write with id w: refused after end(), queued
\* behind a write in progress, else handed to _write
Writable_write(r, w) ==
    IF r.wstate.ended
    THEN [r EXCEPT !.counts.writeAfterEnd = @ + 1]
    ELSE IF r.wstate.writing
    THEN [r EXCEPT !.wstate.buffer = Append(@, w)]
    ELSE _write([r EXCEPT !.wstate.writing = TRUE], w)

\* the application's write(payload), called from `origin`; the record of the write
\* keeps whether the socket was connecting when it was submitted
AppWrite(r, p, origin) ==
    Writable_write(
        [r EXCEPT !.writes = Append(@, [kind |-> p.kind, bytes |-> p.bytes,
                                        early |-> r.connecting, origin |-> origin])],
        Len(r.writes) + 1)

\* the completion callback _write was given (stream.Writable's onwrite): the next
\* queued write is handed to _write, then the application's callback runs
OnWrite(r, w) ==
    LET a == [r EXCEPT !.wstate.writing = FALSE]
        b == IF a.wstate.buffer # <<>>
             THEN _write([a EXCEPT !.wstate.writing = TRUE,
                                   !.wstate.buffer = Tail(@)], Head(a.wstate.buffer))
             ELSE a
    IN  IF b.counts.thrown # a.counts.thrown
        THEN b
        ELSE [b EXCEPT !.completed = Append(@, w)]

\* end() that destroys whatever allowHalfOpen and readable are
EndAlwaysDestroys(r, data) ==
    LET a == IF data = NoData THEN r ELSE AppWrite(r, data, "app")
    IN  Duplex_destroy([a EXCEPT !.wstate.ended = TRUE, !.writable = FALSE])

\* Socket.end(data, encoding); data = NoData for end()
EndCall(r, data) ==
    LET a == IF data = NoData THEN r ELSE AppWrite(r, data, "app")
        b == [a EXCEPT !.wstate.ended = TRUE, !.writable = FALSE]
    IN  IF ~b.destroyed /\ (~b.allowHalfOpen \/ ~b.readable)
        THEN Duplex_destroy(b)
        ELSE b

\* ------------------------------------------------------------------ connect and the handlers

\* Socket.listen(): throws; the message of the Error thrown is kept in `observed`
ListenCall(r) == [r EXCEPT !.observed = "Cannot listen in a browser"]

\* connect() that marks the socket connecting before it rejects the path
ConnectPathAfterFlags(r, cb) ==
    [r EXCEPT !.connecting = TRUE, !.writable = TRUE,
              !.observed = "options.path not supported in the browser"]

\* Socket.connect(options, cb) with options.path set: throws before anything else
ConnectPathCall(r, cb) ==
    [r EXCEPT !.observed = "options.path not supported in the browser"]

\* Socket.connect(options, cb) with an options object without path
ConnectCall(r, cb) ==
    LET n == r
    IN  IF n._ws # 0
        THEN IF cb THEN [n EXCEPT !.ticks = Append(@, [kind |-> "connectCb", w |-> 0, inc |-> 0])]
                   ELSE n
        ELSE LET l == IF cb THEN [n EXCEPT !.listeners = Append(@, [kind |-> "cb", w |-> 0])]
                            ELSE n
                 t == RefreshTimer(l)
             IN  [t EXCEPT !.connecting = TRUE, !.writable = TRUE,
                           !.sockets = Append(@, [state |-> "CONNECTING", closeCalls |-> 0,
                                                  errored |-> FALSE]),
                           !._ws = Len(t.sockets) + 1]

\* this.emit('connect') over the listeners ls registered when it starts: the
\* connect callback (which may submit the write p, once), and the once-listeners
\* _write registered, each removed before it runs
RECURSIVE EmitConnect(_, _, _)
EmitConnect(r, ls, p) ==
    IF ls = <<>> THEN r
    ELSE LET l == Head(ls)
         IN  IF l.kind = "cb"
             THEN LET c == [r EXCEPT !.counts.connectCb = @ + 1]
                  IN  EmitConnect(IF p = NoData THEN c ELSE AppWrite(c, p, "connectCb"),
                                  Tail(ls), NoData)
             ELSE LET i == CHOOSE k \in 1..Len(r.listeners) : r.listeners[k] = l
                      d == [r EXCEPT !.listeners =
                               SubSeq(@, 1, i - 1) \o SubSeq(@, i + 1, Len(@))]
                  IN  EmitConnect(_write(d, l.w), Tail(ls), p)

\* an 'open' listener that leaves connecting set
OnOpenKeepsConnecting(r, i, p) ==
    LET t == RefreshTimer([r EXCEPT !.sockets[i].state = "OPEN"])
        f == [t EXCEPT !.readable = TRUE, !.counts.connect = @ + 1]
    IN  EmitConnect(f, f.listeners, p)

\* the 'open' listener of WebSocket i
OnOpen(r, i, p) ==
    LET t == RefreshTimer([r EXCEPT !.sockets[i].state = "OPEN"])
        f == [t EXCEPT !.connecting = FALSE, !.readable = TRUE, !.counts.connect = @ + 1]
    IN  EmitConnect(f, f.listeners, p)

\* a 'message' listener that drops what arrives after end()
OnMessageDropsAfterEnd(r, i, n) ==
    LET t == RefreshTimer(r)
        b == [t EXCEPT !.bytesRead = @ + n]
    IN  IF b.rstate.eof \/ b.wstate.ended THEN b
        ELSE [b EXCEPT !.rstate.pushed = Append(@, [ws |-> i, bytes |-> n])]

\* the 'message' listener of WebSocket i, for a message of n bytes
OnMessage(r, i, n) ==
    LET t == RefreshTimer(r)
        b == [t EXCEPT !.bytesRead = @ + n]
    IN  IF b.rstate.eof THEN b
        ELSE [b EXCEPT !.rstate.pushed = Append(@, [ws |-> i, bytes |-> n])]

\* the 'error' listener of WebSocket i
OnError(r, i) == RefreshTimer(r)

\* the 'close' listener with the lower limit of the code range included
OnCloseFrom1000(r, i, code, clean) ==
    LET t == RefreshTimer([r EXCEPT !.sockets[i].state = "CLOSED"])
        e == IF code >= 1000 /\ code < 3000 /\ (clean = "undefined" \/ clean # "true")
             THEN [t EXCEPT !.errors = Append(@,
                      [cause |-> "close",
                       destroyedBefore |-> t.destroyed,
                       stateBefore |-> ReadyState(t.connecting, t.readable, t.writable)])]
             ELSE t
    IN  IF ~e.destroyed
        THEN Duplex_destroy([e EXCEPT !.rstate.eof = TRUE])
        ELSE e

\* the 'close' listener of WebSocket i
OnClose(r, i, code, clean) ==
    LET t == RefreshTimer([r EXCEPT !.sockets[i].state = "CLOSED"])
        e == IF code > 1000 /\ code < 3000 /\ (clean = "undefined" \/ clean # "true")
             THEN [t EXCEPT !.errors = Append(@,
                      [cause |-> "close",
                       destroyedBefore |-> t.destroyed,
                       stateBefore |-> ReadyState(t.connecting, t.readable, t.writable)])]
             ELSE t
    IN  IF ~e.destroyed
        THEN Duplex_destroy([e EXCEPT !.rstate.eof = TRUE])
        ELSE e

\* the reader drained the stream after push(null): stream.Readable emits 'end' and
\* clears readable; stream.Duplex then ends the write side on the next tick unless
\* allowHalfOpen
OnReaderEnd(r) ==
    LET a == [r EXCEPT !.rstate.endEmitted = TRUE, !.readable = FALSE]
    IN  IF a.allowHalfOpen \/ a.wstate.ended THEN a
        ELSE [a EXCEPT !.ticks = Append(@, [kind |-> "autoEnd", w |-> 0, inc |-> 0])]

\* one process.nextTick callback
RunTick(r) ==
    LET k == Head(r.ticks)
        q == [r EXCEPT !.ticks = Tail(@)]
    IN  IF k.kind = "written"
        THEN OnWrite([q EXCEPT !.bytesWritten = JSAdd(@, k.inc)], k.w)
        ELSE IF k.kind = "connectCb"
        THEN [q EXCEPT !.counts.connectCb = @ + 1]
        ELSE EndCall(q, NoData)

\* a timer callback that also destroys the socket
OnTimerDestroys(r) ==
    Duplex_destroy([r EXCEPT !.timerLive = FALSE, !.timerDur = 0,
                             !.counts.timeout = @ + 1])

\* the timer fires: () => this.emit('timeout')
OnTimer(r) ==
    [r EXCEPT !.timerLive = FALSE, !.timerDur = 0, !.counts.timeout = @ + 1]

\* ------------------------------------------------------------------ the specification

Start(r) ==
    /\ connecting = r.connecting /\ readable = r.readable /\ writable = r.writable
    /\ destroyed = r.destroyed /\ allowHalfOpen = r.allowHalfOpen
    /\ _timer = r._timer /\ _timeout = r._timeout /\ _ws = r._ws
    /\ bytesRead = r.bytesRead /\ bytesWritten = r.bytesWritten
    /\ timerLive = r.timerLive /\ timerDur = r.timerDur /\ strays = r.strays
    /\ sockets = r.sockets /\ listeners = r.listeners /\ ticks = r.ticks
    /\ wstate = r.wstate /\ rstate = r.rstate /\ writes = r.writes
    /\ sends = r.sends /\ completed = r.completed /\ errors = r.errors
    /\ counts = r.counts /\ loads = r.loads /\ observed = r.observed

Init == \E half \in BOOLEAN : Start(Constructed(half))

\* connect({host, port}, cb) on a socket that has no WebSocket
Connect == \E cb \in BOOLEAN :
    /\ _ws = 0
    /\ Len(sockets) < MaxSockets
    /\ Commit(ConnectCall(Cur, cb))

WriteUpTo(max) == \E p \in Payloads :
    /\ Len(writes) < max
    /\ Commit(AppWrite(Cur, p, "app"))

EndUpTo(max) == \E data \in {NoData} \cup Payloads :
    /\ data # NoData => Len(writes) < max
    /\ Commit(EndCall(Cur, data))

Destroy == Commit(Duplex_destroy(Cur))

SetTimeout == \E msecs \in Durations \cup {0, -1} :
    Commit(SetTimeoutCall(Cur, msecs))

\* the open notification; the connect callback, when one is registered, may write p
OpenUpTo(max) == \E i \in DOMAIN sockets : \E p \in {NoData} \cup Payloads :
    /\ sockets[i].state = "CONNECTING"
    /\ p # NoData => /\ Len(writes) < max
                     /\ \E k \in DOMAIN listeners : listeners[k].kind = "cb"
    /\ Commit(OnOpen(Cur, i, p))

Message == \E i \in DOMAIN sockets : \E n \in MessageBytes :
    /\ sockets[i].state \in {"OPEN", "CLOSING"}
    /\ Len(rstate.pushed) < MaxMessages
    /\ Commit(OnMessage(Cur, i, n))

Error == \E i \in DOMAIN sockets :
    /\ sockets[i].state # "CLOSED"
    /\ Commit(OnError(Cur, i))

Close == \E i \in DOMAIN sockets : \E code \in CloseCodes : \E clean \in CleanFlags :
    /\ sockets[i].state # "CLOSED"
    /\ Commit(OnClose(Cur, i, code, clean))

ReaderEnd ==
    /\ rstate.eof /\ ~rstate.endEmitted
    /\ Commit(OnReaderEnd(Cur))

Tick ==
    /\ ticks # <<>>
    /\ Commit(RunTick(Cur))

TimerFires ==
    /\ timerLive
    /\ counts.timeout < MaxTimeouts
    /\ Commit(OnTimer(Cur))

Write == WriteUpTo(MaxWrites)
End == EndUpTo(MaxWrites)
Open == OpenUpTo(MaxWrites)

\* the life of one Socket, timers included
Next ==
    \/ Connect \/ Write \/ End \/ Destroy \/ SetTimeout
    \/ Open \/ Message \/ Error \/ Close
    \/ ReaderEnd \/ Tick \/ TimerFires

Spec == Init /\ [][Next]_vars

WriteQ == WriteUpTo(MaxQueued)
EndQ == EndUpTo(MaxQueued)
OpenQ == OpenUpTo(MaxQueued)

\* the write path: up to MaxQueued writes; no idle timeout is configured and no
\* message arrives (a message touches bytesRead, the read queue and the timer only)
NextWrite ==
    \/ Connect \/ WriteQ \/ EndQ \/ Destroy
    \/ OpenQ \/ Error \/ Close
    \/ ReaderEnd \/ Tick

SpecWrite == Init /\ [][NextWrite]_vars

\* ------------------------------------------------------------------ readyState on its own

\* any values of the fields the getter can see: the three flags (each one is set
\* and reset by the handlers above and can be assigned by the application) and,
\* beside them, fields it must not depend on
StateInit ==
    \E c, rd, wr, half, d \in BOOLEAN : \E t \in {0} \cup Durations :
    \E n \in {0} \cup MessageBytes :
        Start([Constructed(half) EXCEPT !.connecting = c, !.readable = rd,
                                        !.writable = wr, !.destroyed = d,
                                        !._timeout = t, !.bytesRead = n])

GetReadyState == Commit(GetReadyStateCall(Cur))

StateNext == GetReadyState

SpecState == StateInit /\ [][StateNext]_vars

\* ------------------------------------------------------------------ the unsupported calls

Listen == Commit(ListenCall(Cur))

ConnectPath == \E cb \in BOOLEAN : Commit(ConnectPathCall(Cur, cb))

NextCalls ==
    \/ Connect \/ End \/ Destroy \/ SetTimeout
    \/ Open \/ Message \/ Close \/ TimerFires
    \/ Listen \/ ConnectPath

SpecCalls == Init /\ [][NextCalls]_vars

\* ------------------------------------------------------------------ the second definition of Socket

\* new Socket(options), second definition
LegacyConstructed(half) == Constructed(half)

\* Socket.setTimeout, second definition: timers.enroll records the duration and
\* timers.unenroll forgets it; nothing starts a timer (timers.active is never called)
LegacySetTimeoutCall(r, msecs) ==
    IF msecs > 0 THEN [r EXCEPT !._timeout = msecs]
    ELSE IF msecs = 0 THEN [r EXCEPT !._timeout = 0]
    ELSE r

\* Socket.destroy(exception), second definition
LegacyDestroy(r) ==
    IF r.destroyed
    THEN r
    ELSE [r EXCEPT !.connecting = FALSE, !.readable = FALSE, !.writable = FALSE,
                   !._timeout = 0, !.destroyed = TRUE]

\* Socket._write, second definition
Legacy_write(r, w) ==
    IF r.connecting
    THEN [r EXCEPT !.listeners = Append(@, [kind |-> "replay", w |-> w])]
    ELSE IF r._ws = 0
    THEN [r EXCEPT !.counts.thrown = @ + 1]
    ELSE IF r.sockets[r._ws].state = "CONNECTING"
    THEN [r EXCEPT !.sends = Append(@, [w |-> w, ws |-> r._ws, state |-> "CONNECTING"]),
                   !.counts.thrown = @ + 1]
    ELSE [r EXCEPT !.sends = Append(@, [w |-> w, ws |-> r._ws,
                                        state |-> r.sockets[r._ws].state]),
                   !.ticks = Append(@, [kind |-> "written", w |-> w,
                                        inc |-> r.writes[w].bytes])]

\* Socket.write, second definition: a string or a Buffer goes to stream.Writable.write
LegacyAppWrite(r, p, origin) ==
    LET a == [r EXCEPT !.writes = Append(@, [kind |-> p.kind, bytes |-> p.bytes,
                                             early |-> r.connecting, origin |-> origin])]
        w == Len(r.writes) + 1
    IN  IF a.wstate.ended
        THEN [a EXCEPT !.counts.writeAfterEnd = @ + 1]
        ELSE IF a.wstate.writing
        THEN [a EXCEPT !.wstate.buffer = Append(@, w)]
        ELSE Legacy_write([a EXCEPT !.wstate.writing = TRUE], w)

\* the completion callback given to _write, second definition
LegacyOnWrite(r, w) ==
    LET a == [r EXCEPT !.wstate.writing = FALSE]
        b == IF a.wstate.buffer # <<>>
             THEN Legacy_write([a EXCEPT !.wstate.writing = TRUE,
                                         !.wstate.buffer = Tail(@)], Head(a.wstate.buffer))
             ELSE a
    IN  IF b.counts.thrown # a.counts.thrown
        THEN b
        ELSE [b EXCEPT !.completed = Append(@, w)]

\* Socket.end(data, encoding), second definition; maybeDestroy calls
\* `socket.destroy()` on a name that is not defined (ReferenceError)
LegacyEndCall(r, data) ==
    LET a == IF data = NoData THEN r ELSE LegacyAppWrite(r, data, "app")
        b == [a EXCEPT !.wstate.ended = TRUE, !.writable = FALSE]
        c == IF b._ws # 0
             THEN [b EXCEPT !.sockets[b._ws].closeCalls = @ + 1,
                            !.sockets[b._ws].state =
                                IF @ = "CLOSED" THEN "CLOSED" ELSE "CLOSING"]
             ELSE b
    IN  IF c.readable /\ ~c.rstate.endEmitted
        THEN c
        ELSE IF /\ ReadyState(c.connecting, c.readable, c.writable) = "closed"
                /\ ~c.wstate.writing /\ c.wstate.buffer = <<>>
        THEN [c EXCEPT !.counts.thrown = @ + 1]
        ELSE c

\* Socket.connect(options, cb), second definition, options without path
LegacyConnectCall(r, cb) ==
    LET a == [r EXCEPT !.connecting = TRUE, !.writable = TRUE]
    IN  IF a._ws # 0
        THEN [a EXCEPT !.ticks = Append(@, [kind |-> "connectCb",
                                            w |-> IF cb THEN 1 ELSE 0, inc |-> 0])]
        ELSE LET n == [a EXCEPT !.sockets = Append(@, [state |-> "CONNECTING",
                                          closeCalls |-> 0, errored |-> FALSE]),
                                !._ws = Len(a.sockets) + 1]
             IN  IF cb THEN [n EXCEPT !.listeners = Append(@, [kind |-> "cb", w |-> 0])]
                       ELSE n

\* this.emit('connect'), second definition
RECURSIVE LegacyEmitConnect(_, _, _)
LegacyEmitConnect(r, ls, p) ==
    IF ls = <<>> THEN r
    ELSE LET l == Head(ls)
         IN  IF l.kind = "cb"
             THEN LET c == [r EXCEPT !.counts.connectCb = @ + 1]
                  IN  LegacyEmitConnect(
                          IF p = NoData THEN c ELSE LegacyAppWrite(c, p, "connectCb"),
                          Tail(ls), NoData)
             ELSE LET i == CHOOSE k \in 1..Len(r.listeners) : r.listeners[k] = l
                      d == [r EXCEPT !.listeners =
                               SubSeq(@, 1, i - 1) \o SubSeq(@, i + 1, Len(@))]
                  IN  LegacyEmitConnect(Legacy_write(d, l.w), Tail(ls), p)

\* the 'open' listener, second definition
LegacyOnOpen(r, i, p) ==
    LET f == [r EXCEPT !.sockets[i].state = "OPEN", !.connecting = FALSE,
                       !.readable = TRUE, !.counts.connect = @ + 1]
    IN  LegacyEmitConnect(f, f.listeners, p)

\* the 'error' listener, second definition
LegacyOnError(r, i) ==
    [r EXCEPT !.sockets[i].errored = TRUE,
              !.errors = Append(@, [cause |-> "error", destroyedBefore |-> r.destroyed,
                  stateBefore |-> ReadyState(r.connecting, r.readable, r.writable)])]

\* gotBuffer in the 'message' listener, second definition
LegacyGotBuffer(r, i, n) ==
    [r EXCEPT !.bytesRead = @ + n,
              !.rstate.pushed = Append(@, [ws |-> i, bytes |-> n])]

\* the 'message' listener, second definition: a string is pushed at once, a Blob
\* is read by a FileReader first, anything else is dropped with a warning
LegacyOnMessage(r, i, type, n) ==
    IF type = "string" THEN LegacyGotBuffer(r, i, n)
    ELSE IF type = "Blob" THEN [r EXCEPT !.loads = Append(@, [ws |-> i, bytes |-> n])]
    ELSE r

\* the 'load' listener of the FileReader at position k of loads
LegacyOnLoad(r, k) ==
    LegacyGotBuffer([r EXCEPT !.loads = SubSeq(@, 1, k - 1) \o SubSeq(@, k + 1, Len(@))],
                    r.loads[k].ws, r.loads[k].bytes)

\* the 'close' listener, second definition
LegacyOnClose(r, i) ==
    LET c == [r EXCEPT !.sockets[i].state = "CLOSED"]
    IN  IF ReadyState(c.connecting, c.readable, c.writable) = "open"
        THEN LegacyDestroy(c)
        ELSE c

\* one process.nextTick callback, second definition
LegacyRunTick(r) ==
    LET k == Head(r.ticks)
        q == [r EXCEPT !.ticks = Tail(@)]
    IN  IF k.kind = "written"
        THEN LegacyOnWrite([q EXCEPT !.bytesWritten = JSAdd(@, k.inc)], k.w)
        ELSE IF k.w = 1 THEN [q EXCEPT !.counts.connectCb = @ + 1]
        ELSE q

LegacyInit == \E half \in BOOLEAN : Start(LegacyConstructed(half))

\* connect(); a repeated connect() schedules a callback tick each time
LegacyConnect == \E cb \in BOOLEAN :
    /\ IF _ws = 0 THEN Len(sockets) < MaxSockets
                  ELSE counts.connectCb + Len(ticks) < MaxCallbacks
    /\ Commit(LegacyConnectCall(Cur, cb))

LegacyWrite == \E p \in Payloads :
    /\ Len(writes) < MaxWrites
    /\ Commit(LegacyAppWrite(Cur, p, "app"))

LegacyEnd == \E data \in {NoData} \cup Payloads :
    /\ data # NoData => Len(writes) < MaxWrites
    /\ IF _ws # 0 THEN sockets[_ws].closeCalls < MaxEnds ELSE counts.thrown < MaxEnds
    /\ Commit(LegacyEndCall(Cur, data))

LegacyDestroyCall == Commit(LegacyDestroy(Cur))

LegacySetTimeout == \E msecs \in Durations \cup {0, -1} :
    Commit(LegacySetTimeoutCall(Cur, msecs))

LegacyOpen == \E i \in DOMAIN sockets : \E p \in {NoData} \cup Payloads :
    /\ sockets[i].state = "CONNECTING"
    /\ p # NoData => /\ Len(writes) < MaxWrites
                     /\ \E k \in DOMAIN listeners : listeners[k].kind = "cb"
    /\ Commit(LegacyOnOpen(Cur, i, p))

LegacyMessage == \E i \in DOMAIN sockets : \E type \in {"string", "Blob", "other"} :
                 \E n \in MessageBytes :
    /\ sockets[i].state \in {"OPEN", "CLOSING"}
    /\ Len(rstate.pushed) + Len(loads) < MaxMessages
    /\ Commit(LegacyOnMessage(Cur, i, type, n))

LegacyLoad == \E k \in DOMAIN loads : Commit(LegacyOnLoad(Cur, k))

\* a WebSocket reports an error at most once (the error log stays bounded)
LegacyError == \E i \in DOMAIN sockets :
    /\ sockets[i].state # "CLOSED" /\ ~sockets[i].errored
    /\ Commit(LegacyOnError(Cur, i))

LegacyClose == \E i \in DOMAIN sockets :
    /\ sockets[i].state # "CLOSED"
    /\ Commit(LegacyOnClose(Cur, i))

LegacyTick ==
    /\ ticks # <<>>
    /\ Commit(LegacyRunTick(Cur))

LegacyNext ==
    \/ LegacyConnect \/ LegacyWrite \/ LegacyEnd \/ LegacyDestroyCall \/ LegacySetTimeout
    \/ LegacyOpen \/ LegacyMessage \/ LegacyLoad \/ LegacyError \/ LegacyClose
    \/ LegacyTick

SpecLegacy == LegacyInit /\ [][LegacyNext]_vars

\* ------------------------------------------------------------------ claims

\* the writes _write deferred until 'connect'
Deferred == {k \in DOMAIN listeners : listeners[k].kind = "replay"}
\* the positions in `sends` of the write with id w
SendsOf(w) == {k \in DOMAIN sends : sends[k].w = w}

\* C1: of the writes submitted while connecting at most one is pending in the
\* adapter, the others wait in the stream's queue; nothing is handed to send before
\* the open notification; once it has been processed no write is still deferred,
\* and the writes reach send in the order they were submitted, those submitted
\* while connecting before those submitted later (the connect callback's included).
C1_DeferredWritesInOrder ==
    /\ Cardinality(Deferred) <= 1
    /\ \A k \in Deferred : \A j \in DOMAIN wstate.buffer :
           listeners[k].w < wstate.buffer[j]
    /\ counts.connect = 0 => sends = <<>>
    /\ \A k \in DOMAIN sends : sends[k].state # "CONNECTING"
    /\ ~connecting => Deferred = {}
    /\ \A j, k \in DOMAIN sends : j < k => sends[j].w < sends[k].w
    /\ \A j, k \in DOMAIN sends :
           writes[sends[j].w].early /\ ~writes[sends[k].w].early => j < k
    /\ \A w \in DOMAIN writes :
           writes[w].early /\ SendsOf(w) = {} => \A k \in DOMAIN sends : sends[k].w < w

\* two writes submitted while connecting and one from the connect callback, all sent
C1_Witness ==
    /\ Len(sends) = 3
    /\ writes[1].early /\ writes[2].early
    /\ writes[3].origin = "connectCb"


\* C2: a write of n bytes submitted while connecting is not handed to send, not
\* counted in bytesWritten and not completed before the open notification; after it
\* send is called exactly once for it, and when its tick has run its callback has
\* fired once and bytesWritten has grown by n.
C2_DeferredWriteCounted ==
    (writes # <<>> /\ writes[1].early /\ counts.writeAfterEnd = 0) =>
        /\ counts.connect = 0 => sends = <<>> /\ bytesWritten = 0 /\ completed = <<>>
        /\ counts.connect > 0 => Cardinality(SendsOf(1)) = 1
        /\ Cardinality({k \in DOMAIN completed : completed[k] = 1}) <= 1
        /\ completed = <<1>> => bytesWritten = writes[1].bytes

\* what the claims call an abnormal close: a code strictly between 1000 and 3000
\* and a close that is not clean
Abnormal(code, clean) == 1000 < code /\ code < 3000 /\ clean # "true"

\* the close notifications that can arrive in the current state
ClosesPossible ==
    {n \in (DOMAIN sockets) \X CloseCodes \X CleanFlags : sockets[n[1]].state # "CLOSED"}

\* C3 as stated: every close notification emits exactly one error event when it is
\* abnormal and none otherwise, and leaves the socket destroyed; every error event
\* was emitted on a socket not yet destroyed or closed; at most one error event.
C3_ErrorBeforeDestroyed ==
    /\ \A n \in ClosesPossible :
           LET r == OnClose(Cur, n[1], n[2], n[3])
           IN  /\ Len(r.errors) = Len(errors) + (IF Abnormal(n[2], n[3]) THEN 1 ELSE 0)
               /\ r.destroyed
    /\ \A k \in DOMAIN errors :
           ~errors[k].destroyedBefore /\ errors[k].stateBefore # "closed"
    /\ Len(errors) <= 1

\* C3 amended: as C3, the error event preceding destruction only when the
\* application had not destroyed the socket before the close notification.
C3_ErrorOnAbnormalClose ==
    /\ \A n \in ClosesPossible :
           LET r == OnClose(Cur, n[1], n[2], n[3])
           IN  /\ Len(r.errors) = Len(errors) + (IF Abnormal(n[2], n[3]) THEN 1 ELSE 0)
               /\ r.destroyed
               /\ (Abnormal(n[2], n[3]) /\ ~destroyed) =>
                      /\ ~r.errors[Len(r.errors)].destroyedBefore
                      /\ r.errors[Len(r.errors)].stateBefore # "closed"
    /\ \A k \in DOMAIN errors :
           ~errors[k].destroyedBefore => errors[k].stateBefore # "closed"
    /\ Len(errors) <= 1

\* an abnormal close on a live socket: one error event, then destroyed
C3_Witness ==
    /\ Len(errors) = 1 /\ ~errors[1].destroyedBefore /\ errors[1].stateBefore = "open"
    /\ destroyed /\ sockets[1].state = "CLOSED"

\* C4: under the second definition of Socket, every error event the consumer has
\* received was caused by a close notification, and a transport error notification
\* arriving now would emit no error event and leave connecting, readable, writable
\* and destroyed as they are.
C4_TransportErrorNotSurfaced ==
    /\ \A k \in DOMAIN errors : errors[k].cause = "close"
    /\ \A i \in DOMAIN sockets :
          sockets[i].state # "CLOSED" /\ ~sockets[i].errored =>
              LET r == LegacyOnError(Cur, i)
              IN  /\ r.errors = errors
                  /\ r.connecting = connecting /\ r.readable = readable
                  /\ r.writable = writable /\ r.destroyed = destroyed

\* C5: a second destroy() changes nothing the first one left: flags, timer,
\* transport, events and callback counts are the same after two calls as after
\* one; close() is invoked at most once per transport and the completion callback
\* at most once.
C5_DestroyIdempotent ==
    LET a == Duplex_destroy(Cur)
        b == Duplex_destroy(a)
    IN  /\ a.destroyed
        /\ b = a
        /\ destroyed => a = Cur
        /\ counts.destroyCb <= 1
        /\ \A i \in DOMAIN sockets : sockets[i].closeCalls <= 1

\* destroy() has been called on a socket with a transport
C5_Witness == destroyed /\ _ws # 0 /\ sockets[_ws].state = "OPEN"

\* C6: once destroyed, connecting, readable and writable are false, connect()
\* creates no transport and does not set connecting, and an open notification
\* does not set readable.
C6_DestructionTerminal ==
    destroyed =>
        /\ ~connecting /\ ~readable /\ ~writable
        /\ readyState = "closed"
        /\ \A cb \in BOOLEAN :
               LET r == ConnectCall(Cur, cb)
               IN  r.sockets = sockets /\ ~r.connecting
        /\ \A i \in DOMAIN sockets :
               sockets[i].state = "CONNECTING" => ~OnOpen(Cur, i, NoData).readable

\* C7: the first destroy() leaves connecting, readable and writable false, has
\* called close() on the transport and released the handle if there was one,
\* leaves no timer pending, and has invoked the completion callback.
C7_DestroyCompletes ==
    ~destroyed =>
        LET r == Duplex_destroy(Cur)
        IN  /\ r.destroyed
            /\ ~r.connecting /\ ~r.readable /\ ~r.writable
            /\ _ws # 0 => /\ r._ws = 0
                          /\ r.sockets[_ws].closeCalls = sockets[_ws].closeCalls + 1
            /\ ~r.timerLive
            /\ r.counts.destroyCb = counts.destroyCb + 1

\* the derived state as the claim tabulates it, over the eight flag combinations
C8_Table ==
    [f \in BOOLEAN \X BOOLEAN \X BOOLEAN |->
        IF f[1] THEN "opening"
        ELSE IF f[2] /\ f[3] THEN "open"
        ELSE IF f[2] THEN "readOnly"
        ELSE IF f[3] THEN "writeOnly"
        ELSE "closed"]

\* C8: reading readyState returns the table's entry for (connecting, readable,
\* writable), whatever the other fields hold, and changes no field; a value read
\* earlier is the table's entry too.
C8_ReadyStateOfFlags ==
    LET r == GetReadyStateCall(Cur)
    IN  /\ r.observed = C8_Table[<<connecting, readable, writable>>]
        /\ [r EXCEPT !.observed = observed] = Cur
        /\ observed # "none" => observed = C8_Table[<<connecting, readable, writable>>]

\* the getter has been read with connecting set while readable and writable are set
C8_Witness == observed = "opening" /\ connecting /\ readable /\ writable /\ _timeout # 0

C10_DisarmedStaysSilent ==
    /\ [](_timeout = 0 => ~timerLive /\ strays = 0)
    /\ [][_timeout = 0 => counts.timeout' = counts.timeout]_vars

\* a timer was armed and fired, then setTimeout(0), on a connected socket
C10_Witness ==
    /\ counts.timeout = 1 /\ _timeout = 0 /\ _timer = 0
    /\ counts.connect = 1 /\ rstate.pushed # <<>>

\* C11: under the second definition of Socket, connect() while a transport exists
\* creates no transport, leaves connecting, readable, writable and the transport
\* as they are, and schedules exactly one tick, which invokes the callback once.
C11_SecondConnectNoOp ==
    _ws # 0 =>
        \A cb \in BOOLEAN :
            LET r == LegacyConnectCall(Cur, cb)
            IN  /\ r.sockets = sockets /\ r._ws = _ws
                /\ r.connecting = connecting /\ r.readable = readable
                /\ r.writable = writable
                /\ r.counts = counts
                /\ Len(r.ticks) = Len(ticks) + 1
                /\ LET q == LegacyRunTick([r EXCEPT !.ticks = <<r.ticks[Len(r.ticks)]>>])
                   IN  q.counts.connectCb = counts.connectCb + (IF cb THEN 1 ELSE 0)

\* the Error messages of the unsupported calls
Unsupported == {"Cannot listen in a browser", "options.path not supported in the browser"}

\* C12: listen() and connect() with a path throw and change nothing but the
\* record of the Error thrown: flags, transport, timer, counters, queues and
\* events are as before the call.
C12_UnsupportedCallsChangeNothing ==
    /\ LET r == ListenCall(Cur)
       IN  r.observed \in Unsupported /\ [r EXCEPT !.observed = observed] = Cur
    /\ \A cb \in BOOLEAN :
           LET r == ConnectPathCall(Cur, cb)
           IN  r.observed \in Unsupported /\ [r EXCEPT !.observed = observed] = Cur

\* a path connect was rejected on an open socket, which is still open and has
\* received a message
C12_Witness ==
    /\ observed = "options.path not supported in the browser"
    /\ readyState = "open" /\ sockets[_ws].state = "OPEN" /\ ~destroyed
    /\ rstate.pushed # <<>>

\* C13: when the timer fires, one timeout event is emitted and nothing else
\* happens: flags, transport handle, transports (close() not called), byte
\* counters, stream queues and the other events are unchanged.
C13_TimeoutAdvisory ==
    timerLive =>
        LET r == OnTimer(Cur)
        IN  /\ r.counts = [counts EXCEPT !.timeout = @ + 1]
            /\ [r EXCEPT !.counts = counts, !.timerLive = timerLive,
                         !.timerDur = timerDur] = Cur

\* a timeout was emitted on an open socket, which is open still
C13_Witness ==
    /\ counts.timeout = 1 /\ readyState = "open" /\ ~destroyed
    /\ _ws # 0 /\ sockets[_ws].state = "OPEN" /\ sockets[_ws].closeCalls = 0

\* C14: connecting is true only while the current transport has reported neither
\* open nor close, and it is true while such a transport exists on a socket that
\* was not destroyed.
C14_ConnectingIffInFlight ==
    /\ connecting => _ws # 0 /\ sockets[_ws].state \notin {"OPEN", "CLOSED"}
    /\ (_ws # 0 /\ sockets[_ws].state = "CONNECTING" /\ ~destroyed) => connecting

\* C15: readable is false until the open notification of the current transport;
\* the open handler re-arms the timer when a duration is set, sets readable,
\* clears connecting, emits connect once, and hands the deferred write to send;
\* on a socket that is writable and not destroyed the state is then 'open'.
C15_OpenOnlyOnOpenNotification ==
    /\ counts.connect = 0 => ~readable
    /\ readable => _ws # 0 /\ sockets[_ws].state # "CONNECTING"
    /\ counts.connect <= 1
    /\ \A i \in DOMAIN sockets :
           sockets[i].state = "CONNECTING" =>
               LET r == OnOpen(Cur, i, NoData)
               IN  /\ r.readable /\ ~r.connecting
                   /\ r.counts.connect = counts.connect + 1
                   /\ _timeout # 0 => r.timerLive /\ r.timerDur = _timeout /\ r.strays = 0
                   /\ \A k \in DOMAIN r.listeners : r.listeners[k].kind # "replay"
                   /\ \A k \in Deferred :
                          \E j \in DOMAIN r.sends : r.sends[j].w = listeners[k].w
                   /\ (writable /\ ~destroyed) =>
                          ReadyState(r.connecting, r.readable, r.writable) = "open"

\* the open notification arrived with a write deferred and a duration set
C15_Witness ==
    /\ counts.connect = 1 /\ readyState = "open" /\ timerLive
    /\ writes # <<>> /\ writes[1].early /\ sends # <<>>

\* C16: after any close notification the socket is destroyed, connecting,
\* readable and writable are false (so the state is never 'writeOnly'), and
\* end-of-data has been signalled to the reader at most once.
C16_CloseDestroys ==
    \A n \in ClosesPossible :
        LET r == OnClose(Cur, n[1], n[2], n[3])
        IN  /\ r.destroyed
            /\ ~r.connecting /\ ~r.readable /\ ~r.writable
            /\ ReadyState(r.connecting, r.readable, r.writable) # "writeOnly"
            /\ rstate.eof => r.rstate = rstate

\* the write side was ended on a socket that allows half-open and still reads
HalfClosed == allowHalfOpen /\ wstate.ended /\ readable /\ ~destroyed

\* C17: end() on an open socket with allowHalfOpen neither destroys the socket
\* nor calls close() on the transport and leaves the state 'readOnly'; a message
\* arriving on the half-closed socket is pushed to the reader; the close
\* notification destroys it, and no other step of the socket itself does.
C17_HalfOpenEnd ==
    /\ [] ((allowHalfOpen /\ readyState = "open" /\ ~destroyed) =>
             \A data \in {NoData} \cup Payloads :
                 (data # NoData => Len(writes) < MaxWrites) =>
                     LET r == EndCall(Cur, data)
                     IN  /\ ~r.destroyed
                         /\ r._ws = _ws
                         /\ \A i \in DOMAIN sockets :
                                /\ r.sockets[i].closeCalls = sockets[i].closeCalls
                                /\ r.sockets[i].state = sockets[i].state
                         /\ ReadyState(r.connecting, r.readable, r.writable) = "readOnly")
    /\ [] (HalfClosed =>
             /\ \A n \in MessageBytes :
                    OnMessage(Cur, _ws, n).rstate.pushed =
                        Append(rstate.pushed, [ws |-> _ws, bytes |-> n])
             /\ \A n \in ClosesPossible :
                    LET r == OnClose(Cur, n[1], n[2], n[3])
                    IN  r.destroyed /\ r.rstate.eof)
    /\ [][(HalfClosed /\ destroyed') =>
             \/ sockets[_ws].state # "CLOSED" /\ sockets'[_ws].state = "CLOSED"
             \/ /\ sockets' = sockets /\ rstate' = rstate /\ wstate' = wstate
                /\ counts' = counts /\ ticks' = ticks /\ errors' = errors]_vars

\* a half-closed socket with its transport open and a message delivered
C17_Witness ==
    /\ HalfClosed /\ readyState = "readOnly"
    /\ sockets[_ws].state = "OPEN" /\ sockets[_ws].closeCalls = 0
    /\ rstate.pushed # <<>>

\* the total length of the messages in a sequence of pushed chunks
RECURSIVE TotalBytes(_)
TotalBytes(q) == IF q = <<>> THEN 0 ELSE q[1].bytes + TotalBytes(Tail(q))

\* C18: a message is appended to what the reader was given, as one chunk of its
\* own length, and bytesRead grows by that length and equals the total length
\* delivered; the tick that counts a write makes neither bytesWritten nor
\* bytesRead smaller, and bytesWritten is a byte count.
C18_InboundOrderAndCounters ==
    /\ bytesRead = TotalBytes(rstate.pushed)
    /\ \A i \in DOMAIN sockets : \A n \in MessageBytes :
           sockets[i].state \in {"OPEN", "CLOSING"} =>
               LET r == OnMessage(Cur, i, n)
               IN  /\ r.rstate.pushed = Append(rstate.pushed, [ws |-> i, bytes |-> n])
                   /\ r.bytesRead = bytesRead + n
                   /\ r.bytesWritten = bytesWritten
    /\ bytesWritten # NaN
    /\ ticks # <<>> =>
           LET r == RunTick(Cur)
           IN  r.bytesWritten # NaN /\ r.bytesWritten >= bytesWritten
                                    /\ r.bytesRead = bytesRead

\* the timer pending in r is the only one and runs for the duration d
ArmedFor(r, d) == r.timerLive /\ r.timerDur = d /\ r.strays = 0

\* C19: no timer runs beside the one whose handle the socket holds; a pending
\* timer runs for the configured duration, and none is pending without one;
\* setTimeout(d) with d > 0 leaves exactly one timer, of duration d; the open and
\* message handlers and _write leave exactly one timer of the configured duration.
C19_SingleDeadline ==
    /\ strays = 0
    /\ timerLive => _timeout # 0 /\ timerDur = _timeout /\ _timer # 0
    /\ \A d \in Durations :
           LET r == SetTimeoutCall(Cur, d) IN r._timeout = d /\ ArmedFor(r, d)
    /\ _timeout # 0 =>
           /\ \A i \in DOMAIN sockets : \A n \in MessageBytes :
                  /\ sockets[i].state = "CONNECTING" =>
                         ArmedFor(OnOpen(Cur, i, NoData), _timeout)
                  /\ sockets[i].state \in {"OPEN", "CLOSING"} =>
                         ArmedFor(OnMessage(Cur, i, n), _timeout)
           /\ \A w \in DOMAIN writes : ArmedFor(_write(Cur, w), _timeout)

\* a timeout was emitted and a later message or write armed the timer again for
\* the configured duration
C19_Witness ==
    /\ _timeout = 2 /\ timerLive /\ timerDur = 2
    /\ counts.timeout = 1 /\ rstate.pushed # <<>> /\ writes # <<>>

\* C20: send is never attempted without a transport or on one that is not open,
\* and on a destroyed socket no write is waiting to be replayed.
C20_SendOnLiveHandle ==
    /\ counts.thrown = 0
    /\ \A k \in DOMAIN sends : sends[k].state = "OPEN"
    /\ destroyed => Deferred = {}

====
